---- MODULE Spec2Model ----
(***************************************************************************)
(* Model of src/ml/ticket-clustering/src/clustering.py, class              *)
(* TicketClustering: the text normaliser preprocess_text, the cluster      *)
(* count selector find_optimal_clusters, the workflow cluster_tickets and  *)
(* the reporter _analyze_clusters.                                         *)
(*                                                                         *)
(* Texts are sequences of one-character strings.  The library calls        *)
(* (WordNet lemmatiser, TfidfVectorizer, KMeans, silhouette_score,         *)
(* numpy, pandas) are modelled by their documented behaviour at the call   *)
(* site; where the library's result depends on numeric data the model      *)
(* does not carry, the result is a nondeterministic choice.                *)
(***************************************************************************)
EXTENDS Integers, Sequences, FiniteSets, TLC

\* ------------------------------------------------------------------ bounds

\* Longest input text of a preprocess_text call, counted in pieces of PieceSeq.
MaxPieces == 4

\* ---------------------------------------------------------------- helpers

Min(a, b) == IF a < b THEN a ELSE b

Max(a, b) == IF a > b THEN a ELSE b

Range(s) == {s[i] : i \in DOMAIN s}

RECURSIVE Flatten(_)
Flatten(ss) == IF ss = <<>> THEN <<>> ELSE Head(ss) \o Flatten(Tail(ss))

\* ------------------------------------------------------------- characters

LowerLetters ==
    <<"a","b","c","d","e","f","g","h","i","j","k","l","m",
      "n","o","p","q","r","s","t","u","v","w","x","y","z">>

UpperLetters ==
    <<"A","B","C","D","E","F","G","H","I","J","K","L","M",
      "N","O","P","Q","R","S","T","U","V","W","X","Y","Z">>

Digits == {"0","1","2","3","4","5","6","7","8","9"}

Letters == Range(LowerLetters) \cup Range(UpperLetters)

\* The regular expression class \w on the texts of the model.
WordChars == Letters \cup Digits \cup {"_"}

\* The regular expression class \s on the texts of the model.
WhiteSpace == {" "}

\* str.lower() on one character.
LowerChar(c) ==
    IF c \in Range(UpperLetters)
    THEN LowerLetters[CHOOSE i \in DOMAIN UpperLetters : UpperLetters[i] = c]
    ELSE c

\* ------------------------------------------------- _initialize_stop_words

\* stopwords.words('english'), restricted to the tokens that can be spelled
\* with the letters the model's texts use.
EnglishStopWords ==
    { <<"i">>, <<"i","s">>, <<"s">>, <<"t">>, <<"o">>, <<"n","o">>,
      <<"n","o","t">>, <<"t","o">>, <<"t","o","o">>, <<"s","o">>,
      <<"o","n">>, <<"i","n">>, <<"i","t">>, <<"i","t","s">>,
      <<"h","i","s">>, <<"t","h","i","s">>, <<"i","n","t","o">>,
      <<"i","s","n">>, <<"n","o","r">> }

\* domain_stop_words, restricted in the same way.
domain_stop_words == { <<"s","i","r">>, <<"s","r","n","s">> }

\* operators, restricted in the same way.
operators ==
    { <<"n","o","t">>, <<"i">>, <<"o","r">>, <<"t","o","o">> }

stop_words == (EnglishStopWords \cup domain_stop_words) \ operators

\* ---------------------------------------------------------- preprocess_text

\* text = str(text).lower()
lower(text) == [i \in DOMAIN text |-> LowerChar(text[i])]

\* re.sub(r"[^a-zA-Z+]", " ", text)
SubNonAlpha(text) ==
    [i \in DOMAIN text |->
        IF text[i] \in Letters \cup {"+"} THEN text[i] ELSE " "]

\* The alternation 'kindly|hi|hello', in the order the regex tries it.
Greetings ==
    << <<"k","i","n","d","l","y">>, <<"h","i">>, <<"h","e","l","l","o">> >>

StartsWithAt(text, p, w) ==
    /\ p + Len(w) - 1 <= Len(text)
    /\ SubSeq(text, p, p + Len(w) - 1) = w

\* re.sub('kindly|hi|hello', '', text): one left-to-right pass over the
\* text, deleting the leftmost non-overlapping matches.
RECURSIVE SubGreetingsFrom(_, _)
SubGreetingsFrom(text, p) ==
    IF p > Len(text) THEN <<>>
    ELSE LET m == {g \in DOMAIN Greetings : StartsWithAt(text, p, Greetings[g])}
         IN  IF m # {}
             THEN LET g == CHOOSE x \in m : \A y \in m : x <= y
                  IN  SubGreetingsFrom(text, p + Len(Greetings[g]))
             ELSE <<text[p]>> \o SubGreetingsFrom(text, p + 1)

SubGreetings(text) == SubGreetingsFrom(text, 1)

\* End of the maximal run of characters of class cls that starts at p.
RECURSIVE RunEnd(_, _, _)
RunEnd(text, p, cls) ==
    IF p + 1 <= Len(text) /\ text[p + 1] \in cls
    THEN RunEnd(text, p + 1, cls)
    ELSE p

\* text.split(): the maximal runs of non-whitespace characters.
RECURSIVE SplitFrom(_, _)
SplitFrom(text, p) ==
    IF p > Len(text) THEN <<>>
    ELSE IF text[p] \in WhiteSpace THEN SplitFrom(text, p + 1)
    ELSE LET NonSpace == {text[i] : i \in DOMAIN text} \ WhiteSpace
             e == RunEnd(text, p, NonSpace)
         IN  <<SubSeq(text, p, e)>> \o SplitFrom(text, e + 1)

split(text) == SplitFrom(text, 1)

\* The nouns of WordNet among the tokens of the model.
WordNetNouns ==
    { <<"s","i","r">>, <<"t","o","n">>, <<"t","i","n">>, <<"s">>, <<"i">>,
      <<"n","o">>, <<"s","s">>, <<"t","o","r">> }

\* WordNetLemmatizer.lemmatize(token) with the default pos='n': the
\* shortest of the forms WordNet knows among the token itself and the
\* token without its plural ending; the token itself when it knows none.
lemmatize(token) ==
    LET n    == Len(token)
        stem == IF n > 1 /\ token[n] = "s" THEN SubSeq(token, 1, n - 1)
                ELSE token
    IN  IF stem \in WordNetNouns THEN stem ELSE token

\* [lemmatize(token) for token in tokens if token not in self.stop_words]
FilterAndLemmatize(tokens) ==
    LET kept == SelectSeq(tokens, LAMBDA t : t \notin stop_words)
    IN  [i \in DOMAIN kept |-> lemmatize(kept[i])]

\* " ".join(tokens)
RECURSIVE join(_)
join(tokens) ==
    IF tokens = <<>> THEN <<>>
    ELSE IF Len(tokens) = 1 THEN tokens[1]
    ELSE tokens[1] \o <<" ">> \o join(Tail(tokens))

\* text.replace(".", " ").replace(",", " ")
ReplacePunct(text) ==
    [i \in DOMAIN text |-> IF text[i] \in {".", ","} THEN " " ELSE text[i]]

\* re.sub(r'\b\w{1,2}\b', '', text): every maximal run of one or two word
\* characters is deleted.
RECURSIVE SubShortFrom(_, _)
SubShortFrom(text, p) ==
    IF p > Len(text) THEN <<>>
    ELSE IF text[p] \notin WordChars
         THEN <<text[p]>> \o SubShortFrom(text, p + 1)
         ELSE LET e == RunEnd(text, p, WordChars)
              IN  IF e - p + 1 <= 2
                  THEN SubShortFrom(text, e + 1)
                  ELSE SubSeq(text, p, e) \o SubShortFrom(text, e + 1)

\* A short-word filter that deletes one-character words only.
RECURSIVE SubOneCharFrom(_, _)
SubOneCharFrom(text, p) ==
    IF p > Len(text) THEN <<>>
    ELSE IF text[p] \notin WordChars
         THEN <<text[p]>> \o SubOneCharFrom(text, p + 1)
         ELSE LET e == RunEnd(text, p, WordChars)
              IN  IF e - p + 1 <= 1
                  THEN SubOneCharFrom(text, e + 1)
                  ELSE SubSeq(text, p, e) \o SubOneCharFrom(text, e + 1)

SubOneCharWords(text) == SubOneCharFrom(text, 1)

SubShortWords(text) == SubShortFrom(text, 1)

\* re.sub(r'\s+', ' ', text)
RECURSIVE SubWhitespaceFrom(_, _)
SubWhitespaceFrom(text, p) ==
    IF p > Len(text) THEN <<>>
    ELSE IF text[p] \in WhiteSpace
         THEN <<" ">> \o SubWhitespaceFrom(text, RunEnd(text, p, WhiteSpace) + 1)
         ELSE <<text[p]>> \o SubWhitespaceFrom(text, p + 1)

SubWhitespace(text) == SubWhitespaceFrom(text, 1)

\* text.strip()
RECURSIVE strip(_)
strip(text) ==
    IF text = <<>> THEN <<>>
    ELSE IF Head(text) \in WhiteSpace THEN strip(Tail(text))
    ELSE IF text[Len(text)] \in WhiteSpace
         THEN strip(SubSeq(text, 1, Len(text) - 1))
    ELSE text

preprocess_text(text) ==
    LET t1 == lower(text)
        t2 == SubNonAlpha(t1)
        t3 == SubGreetings(t2)
        tokens == FilterAndLemmatize(split(t3))
        t4 == join(tokens)
        t5 == ReplacePunct(t4)
        t6 == SubShortWords(t5)
        t7 == SubWhitespace(t6)
    IN  strip(t7)

\* ---------------------------------------------------- program constants

\* find_optimal_clusters: the divisor of len(X.toarray()) // 8.
RowsPerCluster == 8

\* find_optimal_clusters: the first candidate of range(2, max_clusters + 1).
FirstK == 2

\* find_optimal_clusters(self, X, max_clusters=10): the default argument.
DefaultMaxClusters == 10

\* TfidfVectorizer(stop_words='english', min_df=2).
min_df == 2

\* _analyze_clusters: order_centroids[i, :10].
TopTerms == 10

\* _analyze_clusters: cluster_data['Question'].head(3).
SampleRows == 3

\* ------------------------------------------------------------------ bounds

\* Largest number of rows of the input file, and of a feature matrix
\* handed to find_optimal_clusters directly.
MaxRows == 24

\* Largest max_clusters argument of a direct find_optimal_clusters call.
MaxClustersArg == 4

\* The rows of the input file whose text is chosen freely; the rows after
\* them share one text.
FreeTextRows == 2

\* The rows of the feature matrix whose label KMeans chooses freely; the
\* rows after them share one label.
FreeLabelRows == 2

\* Silhouette scores are the multiples of 1/ScoreGrid in [-1, 1].
ScoreGrid == 1

\* ----------------------------------------------------- find_optimal_clusters

\* An upper bound that is never below the first candidate.
EffectiveMaxClustersAtLeastTwo(max_clusters, R) ==
    Max(FirstK, Min(max_clusters, R \div RowsPerCluster))

\* max_clusters = min(max_clusters, len(X.toarray()) // 8)
EffectiveMaxClusters(max_clusters, R) ==
    Min(max_clusters, R \div RowsPerCluster)

\* A candidate range that starts at 1.
KFromOne(mc) == [i \in 1..Max(0, mc) |-> i]

\* K = range(2, max_clusters + 1), as the sequence of its values.
K(mc) == [i \in 1..Max(0, mc + 1 - FirstK) |-> i + FirstK - 1]

\* An argmax that returns the last index of the maximum.
argmaxLast(scores) ==
    CHOOSE i \in DOMAIN scores :
        /\ \A j \in DOMAIN scores : scores[j] <= scores[i]
        /\ \A j \in DOMAIN scores : j > i => scores[j] < scores[i]

\* np.argmax on a non-empty list: the first index of the maximum.
argmax(scores) ==
    CHOOSE i \in DOMAIN scores :
        /\ \A j \in DOMAIN scores : scores[j] <= scores[i]
        /\ \A j \in DOMAIN scores : j < i => scores[j] < scores[i]

\* The values silhouette_score can return.
Scores == (0 - ScoreGrid)..ScoreGrid

\* The label vectors KMeans(n_clusters=k).fit(X) can leave in labels_ for a
\* matrix of R rows: every row gets one label of 0..k-1.
LabelVectors(R, k) ==
    { [j \in 1..R |-> IF j <= FreeLabelRows THEN f[j] ELSE base] :
        f \in [1..Min(R, FreeLabelRows) -> 0..(k - 1)], base \in 0..(k - 1) }

\* silhouette_score(X, labels) raises unless 2 <= n_labels <= n_samples - 1.
SilhouetteDefined(labels) ==
    LET n_labels == Cardinality(Range(labels))
    IN  FirstK <= n_labels /\ n_labels <= Len(labels) - 1

\* -------------------------------------------------------- TfidfVectorizer

\* sklearn's ENGLISH_STOP_WORDS, restricted to the tokens of the model.
SklearnStopWords ==
    { <<"n","o","t">>, <<"t","o">>, <<"i","s">>, <<"h","i","s">>,
      <<"n","o">>, <<"t","o","o">>, <<"o","n">>, <<"i","n">>, <<"i","t">>,
      <<"i","t","s">>, <<"s","o">>, <<"t","h","i","s">>, <<"i","n","t","o">>,
      <<"n","o","r">>, <<"o","r">> }

\* token_pattern r"(?u)\b\w\w+\b": the maximal runs of two or more word
\* characters.
RECURSIVE WordRunsFrom(_, _)
WordRunsFrom(doc, p) ==
    IF p > Len(doc) THEN {}
    ELSE IF doc[p] \notin WordChars THEN WordRunsFrom(doc, p + 1)
    ELSE LET e == RunEnd(doc, p, WordChars)
         IN  (IF e - p + 1 >= 2 THEN {SubSeq(doc, p, e)} ELSE {})
                 \cup WordRunsFrom(doc, e + 1)

\* The analyzer of the vectorizer on one document.
Analyze(doc) == WordRunsFrom(lower(doc), 1) \ SklearnStopWords

\* The terms kept by min_df: those that occur in at least min_df documents.
Vocabulary(docs) ==
    { t \in UNION {Analyze(docs[j]) : j \in DOMAIN docs} :
        Cardinality({j \in DOMAIN docs : t \in Analyze(docs[j])}) >= min_df }

\* A vectorizer that never raises.
NoVocabularyCheck(docs) == FALSE

\* fit_transform raises ValueError when no term is left (no document, only
\* stop words, or nothing in min_df documents).
VectorizerRaises(docs) == Vocabulary(docs) = {}

CharIdx(c) == CHOOSE i \in DOMAIN LowerLetters : LowerLetters[i] = c

RECURSIVE LexLess(_, _)
LexLess(a, b) ==
    IF a = <<>> THEN b # <<>>
    ELSE IF b = <<>> THEN FALSE
    ELSE IF Head(a) = Head(b) THEN LexLess(Tail(a), Tail(b))
    ELSE CharIdx(Head(a)) < CharIdx(Head(b))

\* get_feature_names_out(): the vocabulary in sorted order.
RECURSIVE SortedTerms(_)
SortedTerms(S) ==
    IF S = {} THEN <<>>
    ELSE LET m == CHOOSE x \in S : \A y \in S \ {x} : LexLess(x, y)
         IN  <<m>> \o SortedTerms(S \ {m})

\* ------------------------------------------------------------ cluster_tickets

\* The texts of the Question column: two tickets about the same things
\* ("tin tons", "Ton, not tin") and a ticket of stop words only ("to").
QuestionSeq ==
    << <<"t","i","n"," ","t","o","n","s">>,
       <<"T","o","n",","," ","n","o","t"," ","t","i","n">>,
       <<"t","o">> >>

Questions == Range(QuestionSeq)

\* df['Question'].apply(self.preprocess_text)
ApplyPreprocess(col) == [j \in DOMAIN col |-> preprocess_text(col[j])]

\* A set of row numbers as the ascending sequence of its members.
RECURSIVE Ascending(_)
Ascending(S) ==
    IF S = {} THEN <<>>
    ELSE LET m == CHOOSE x \in S : \A y \in S : x <= y
         IN  <<m>> \o Ascending(S \ {m})

\* A filter that keeps every row.
KeepAllRows(clean) == Ascending(DOMAIN clean)

\* df[df['Description_clean'] != '']: the index of the rows kept.
CleanIndex(clean) == Ascending({j \in DOMAIN clean : clean[j] # <<>>})

\* df.sort_values('Label').to_csv(...): the rows grouped by ascending
\* label (the order of the rows of one label is the sort's own).
SortValues(col, k) ==
    LET groups == [l \in 0..(k - 1) |-> {j \in DOMAIN col : col[j] = l}]
    IN  [p \in 1..k |-> [Label |-> p - 1, rows |-> groups[p - 1]]]

\* ------------------------------------------------------------ _analyze_clusters

\* order_centroids[i]: the term indices by descending weight in centre i.
Orderings(V) ==
    { f \in [1..V -> 1..V] : \A a, b \in 1..V : a # b => f[a] # f[b] }

\* A cluster size that counts the labels up to i.
SizeUpTo(lab, i) == Cardinality({j \in DOMAIN lab : lab[j] <= i})

\* cluster_size = sum(model.labels_ == i)
cluster_size(lab, i) == Cardinality({j \in DOMAIN lab : lab[j] = i})

\* data[data['Label'] == i]: the rows of data, by position, with label i.
cluster_data(col, i) ==
    SelectSeq([j \in DOMAIN col |-> j], LAMBDA j : col[j] = i)

\* Series.head(n)
head(rows, n) == SubSeq(rows, 1, Min(n, Len(rows)))

\* ------------------------------------------------------------------ state

VARIABLES
    text,       \* preprocess_text: the argument of the call
    tpc,        \* preprocess_text: "call" before the body ran, "return" after
    result      \* preprocess_text: the returned string

tvars == <<text, tpc, result>>

\* --------------------------------------------- the workflow, as a program

VARIABLES
    pc,                 \* where the call stands
    caller,             \* "direct": find_optimal_clusters was called on a
                        \* matrix; "cluster_tickets": the workflow runs
    err,                \* the exception that ended the call, "" when none
    df_Question,        \* df['Question'], by row
    df_clean,           \* df['Description_clean'], by row
    df_Label,           \* df['Label'], by row; <<>> while df has no such column
    clean_index,        \* the rows of df that clean_data holds, in order
    clean_Label,        \* clean_data['Label'], by position
    terms,              \* vectorizer.get_feature_names_out()
    nrows,              \* the number of rows of X
    max_clusters,       \* find_optimal_clusters: its variable max_clusters
    kpos,               \* find_optimal_clusters: position of the loop in K
    silhouette_scores,  \* find_optimal_clusters: the list of scores
    optimal_k,          \* the value find_optimal_clusters returned, 0 before
    labels,             \* model.labels_ of the final model
    ci,                 \* _analyze_clusters: the loop variable i
    summary,            \* _analyze_clusters: what it printed for a cluster
    output_file,        \* the rows written to output_file, <<>> when none
    arg_max_clusters,   \* history: max_clusters as find_optimal_clusters got it
    fitted,             \* history: n_clusters of each KMeans the selector fitted
    started,            \* history: the stages of the workflow that began
    size_sum,           \* history: sum of the cluster sizes printed
    pct_sum,            \* history: sum of the percentages printed, as
                        \* numerators over len(data)
    counted             \* history: per row of df, the clusters it was counted in

pvars ==
    <<pc, caller, err, df_Question, df_clean, df_Label, clean_index,
      clean_Label, terms, nrows, max_clusters, kpos, silhouette_scores,
      optimal_k, labels, ci, summary, output_file, arg_max_clusters, fitted,
      started,
      size_sum, pct_sum, counted>>

dfvars == <<df_Question, df_clean, df_Label, clean_index, clean_Label, terms>>

selvars ==
    <<max_clusters, kpos, silhouette_scores, optimal_k, arg_max_clusters, fitted>>

repvars == <<labels, ci, summary, size_sum, pct_sum, counted>>

NoSummary ==
    [cluster |-> -1, size |-> 0, pct_num |-> 0, pct_den |-> 1,
     top_terms |-> <<>>, samples |-> <<>>]

\* No call has been made yet.
Idle ==
    /\ pc = "idle"
    /\ caller = "none"
    /\ err = ""
    /\ df_Question = <<>>
    /\ df_clean = <<>>
    /\ df_Label = <<>>
    /\ clean_index = <<>>
    /\ clean_Label = <<>>
    /\ terms = <<>>
    /\ nrows = 0
    /\ max_clusters = 0
    /\ kpos = 0
    /\ silhouette_scores = <<>>
    /\ optimal_k = 0
    /\ labels = <<>>
    /\ ci = 0
    /\ summary = NoSummary
    /\ output_file = <<>>
    /\ arg_max_clusters = 0
    /\ fitted = <<>>
    /\ started = {}
    /\ size_sum = 0
    /\ pct_sum = 0
    /\ counted = <<>>

Init ==
    /\ Idle
    /\ text = <<>>
    /\ tpc = "idle"
    /\ result = <<>>

\* An exception leaves the call.
Raise(e) ==
    /\ pc' = "error"
    /\ err' = e

\* find_optimal_clusters(X, max_clusters) called on a feature matrix.
CallFindOptimal ==
    /\ pc = "idle"
    /\ \E R \in 0..MaxRows, mc \in 0..MaxClustersArg :
          /\ nrows' = R
          /\ max_clusters' = mc
          /\ arg_max_clusters' = mc
    /\ caller' = "direct"
    /\ pc' = "select"
    /\ UNCHANGED <<tvars, err, dfvars, kpos, silhouette_scores, optimal_k,
                   fitted, repvars, output_file, started>>

\* cluster_tickets, lines 152-159: df = pd.read_csv(...)[['Inquiry_id',
\* 'Question']].  Row j carries Inquiry_id j.
LoadData ==
    /\ pc = "idle"
    /\ \E n \in 0..MaxRows :
         \E first \in [1..Min(n, FreeTextRows) -> Questions], rest \in Questions :
            df_Question' =
                [j \in 1..n |-> IF j <= FreeTextRows THEN first[j] ELSE rest]
    /\ caller' = "cluster_tickets"
    /\ pc' = "preprocess"
    /\ UNCHANGED <<tvars, err, df_clean, df_Label, clean_index, clean_Label, terms,
                   nrows, selvars, repvars, output_file, started>>

\* cluster_tickets, lines 160-163.
PreprocessData ==
    /\ pc = "preprocess"
    /\ df_clean' = ApplyPreprocess(df_Question)
    /\ clean_index' = CleanIndex(df_clean')
    /\ pc' = "vectorize"
    /\ UNCHANGED <<tvars, caller, err, df_Question, df_Label, clean_Label, terms,
                   nrows, selvars, repvars, output_file, started>>

\* The documents handed to the vectorizer: clean_data['Description_clean'].
Docs == [p \in DOMAIN clean_index |-> df_clean[clean_index[p]]]

\* cluster_tickets, lines 165-169, when fit_transform raises.
VectorizeRaises ==
    /\ pc = "vectorize"
    /\ VectorizerRaises(Docs)
    /\ Raise("ValueError: empty vocabulary")
    /\ UNCHANGED <<tvars, caller, dfvars, nrows, selvars, repvars, output_file, started>>

\* cluster_tickets, lines 165-172: X is built and find_optimal_clusters(X)
\* is called with the default max_clusters.
Vectorize ==
    /\ pc = "vectorize"
    /\ ~VectorizerRaises(Docs)
    /\ terms' = SortedTerms(Vocabulary(Docs))
    /\ nrows' = Len(Docs)
    /\ max_clusters' = DefaultMaxClusters
    /\ arg_max_clusters' = DefaultMaxClusters
    /\ pc' = "select"
    /\ UNCHANGED <<tvars, caller, err, df_Question, df_clean, df_Label,
                   clean_index, clean_Label, kpos, silhouette_scores,
                   optimal_k, fitted, repvars, output_file, started>>

\* find_optimal_clusters, lines 128-132.
SelectorEnter ==
    /\ pc = "select"
    /\ max_clusters' = EffectiveMaxClusters(max_clusters, nrows)
    /\ silhouette_scores' = <<>>
    /\ kpos' = 1
    /\ started' = started \cup {"select"}
    /\ pc' = "sel_loop"
    /\ UNCHANGED <<tvars, caller, err, dfvars, nrows, optimal_k,
                   arg_max_clusters, fitted, repvars, output_file>>

\* find_optimal_clusters, lines 133-144: one pass of the loop.  KMeans is
\* fitted with k = K[kpos] and its labels are scored.
SelectorEvaluate ==
    /\ pc = "sel_loop"
    /\ kpos <= Len(K(max_clusters))
    /\ fitted' = Append(fitted, K(max_clusters)[kpos])
    /\ \E score \in Scores :
          silhouette_scores' = Append(silhouette_scores, score)
    /\ kpos' = kpos + 1
    /\ UNCHANGED <<tvars, pc, caller, err, dfvars, nrows, max_clusters,
                   optimal_k, arg_max_clusters, repvars, output_file, started>>

\* find_optimal_clusters, lines 133-142: KMeans left fewer than two
\* distinct labels and silhouette_score raises.
SelectorEvaluateRaises ==
    /\ pc = "sel_loop"
    /\ kpos <= Len(K(max_clusters))
    /\ fitted' = Append(fitted, K(max_clusters)[kpos])
    /\ \E lab \in LabelVectors(nrows, K(max_clusters)[kpos]) :
          ~SilhouetteDefined(lab)
    /\ Raise("ValueError: silhouette_score")
    /\ UNCHANGED <<tvars, caller, dfvars, nrows, max_clusters, kpos,
                   silhouette_scores, optimal_k, arg_max_clusters, repvars,
                   output_file, started>>

\* find_optimal_clusters, line 146, on an empty list of scores: np.argmax
\* raises.
SelectorArgmaxRaises ==
    /\ pc = "sel_loop"
    /\ kpos > Len(K(max_clusters))
    /\ silhouette_scores = <<>>
    /\ Raise("ValueError: argmax of an empty sequence")
    /\ UNCHANGED <<tvars, caller, dfvars, nrows, selvars, repvars, output_file, started>>

\* find_optimal_clusters, line 146: return K[np.argmax(silhouette_scores)].
\* The locals of the call end with it.
SelectorReturn ==
    /\ pc = "sel_loop"
    /\ kpos > Len(K(max_clusters))
    /\ silhouette_scores # <<>>
    /\ optimal_k' = K(max_clusters)[argmax(silhouette_scores)]
    /\ pc' = IF caller = "direct" THEN "returned" ELSE "fit"
    /\ UNCHANGED <<tvars, caller, err, dfvars, nrows, max_clusters, kpos,
                   silhouette_scores, arg_max_clusters, fitted, repvars,
                   output_file, started>>

\* cluster_tickets, lines 173-185: the final model is fitted and its labels
\* become clean_data['Label'].  The fit repeats the selector's fit for
\* optimal_k (same matrix, same random_state), whose labels were scored.
\* The selector's list of scores and loop position ended with its call.
FitFinal ==
    /\ pc = "fit"
    /\ \E lab \in LabelVectors(nrows, optimal_k) :
          /\ SilhouetteDefined(lab)
          /\ labels' = lab
          /\ clean_Label' = lab
    /\ started' = started \cup {"fit"}
    /\ silhouette_scores' = <<>>
    /\ kpos' = 0
    /\ ci' = 0
    /\ counted' = [j \in DOMAIN df_Question |-> {}]
    /\ pc' = "analyze"
    /\ UNCHANGED <<tvars, caller, err, df_Question, df_clean, df_Label,
                   clean_index, terms, nrows, max_clusters, optimal_k,
                   arg_max_clusters, fitted, summary, size_sum, pct_sum,
                   output_file>>

\* _analyze_clusters, lines 208-217: one pass of the loop, for cluster ci.
AnalyzeCluster ==
    /\ pc = "analyze"
    /\ ci < optimal_k
    /\ \E order \in Orderings(Len(terms)) :
          LET size    == cluster_size(labels, ci)
              members == cluster_data(clean_Label, ci)
              top     == head(order, TopTerms)
          IN  /\ summary' =
                    [cluster   |-> ci,
                     size      |-> size,
                     pct_num   |-> size * 100,
                     pct_den   |-> Len(clean_index),
                     top_terms |-> [p \in DOMAIN top |-> terms[top[p]]],
                     samples   |-> [p \in DOMAIN head(members, SampleRows) |->
                                       clean_index[members[p]]]]
              /\ size_sum' = size_sum + size
              /\ pct_sum' = pct_sum + size * 100
              /\ counted' =
                    [j \in DOMAIN counted |->
                        IF \E p \in DOMAIN labels :
                              labels[p] = ci /\ clean_index[p] = j
                        THEN counted[j] \cup {ci} ELSE counted[j]]
    /\ started' = started \cup {"report"}
    /\ ci' = ci + 1
    /\ UNCHANGED <<tvars, pc, caller, err, dfvars, nrows, selvars, labels,
                   output_file>>

\* _analyze_clusters returns; its locals end with it.
AnalyzeReturn ==
    /\ pc = "analyze"
    /\ ci >= optimal_k
    /\ summary' = NoSummary
    /\ pc' = "save"
    /\ UNCHANGED <<tvars, caller, err, dfvars, nrows, selvars, labels, ci,
                   size_sum, pct_sum, counted, output_file, started>>

\* cluster_tickets, line 191: df['Label'] = model.labels_ raises when the
\* array is not as long as df.
SaveRaises ==
    /\ pc = "save"
    /\ Len(labels) # Len(df_Question)
    /\ Raise("ValueError: length of values does not match length of index")
    /\ started' = started \cup {"save"}
    /\ UNCHANGED <<tvars, caller, dfvars, nrows, selvars, repvars, output_file>>

\* cluster_tickets, lines 191-193.
SaveResults ==
    /\ pc = "save"
    /\ Len(labels) = Len(df_Question)
    /\ df_Label' = labels
    /\ output_file' = SortValues(df_Label', optimal_k)
    /\ started' = started \cup {"save"}
    /\ pc' = "done"
    /\ UNCHANGED <<tvars, caller, err, df_Question, df_clean, clean_index,
                   clean_Label, terms, nrows, selvars, repvars>>

Next ==
    \/ CallFindOptimal
    \/ LoadData
    \/ PreprocessData
    \/ VectorizeRaises
    \/ Vectorize
    \/ SelectorEnter
    \/ SelectorEvaluate
    \/ SelectorEvaluateRaises
    \/ SelectorArgmaxRaises
    \/ SelectorReturn
    \/ FitFinal
    \/ AnalyzeCluster
    \/ AnalyzeReturn
    \/ SaveRaises
    \/ SaveResults

vars == <<tvars, pvars>>

Spec == Init /\ [][Next]_vars

\* ------------------------------------------- preprocess_text, as a program

\* The fragments the input texts are built from: a blank, the kept sign
\* '+', a digit, a full stop, an upper-case letter and whole words
\* (operators, stop words, a greeting, a plural ending).
PieceSeq ==
    << <<" ">>, <<"+">>, <<"1">>, <<".">>, <<"I">>, <<"n","o","t">>,
       <<"s","i","r">>, <<"s">>, <<"h","i">>, <<"t","o">> >>

Texts ==
    { Flatten([i \in DOMAIN f |-> PieceSeq[f[i]]]) :
        f \in UNION {[1..n -> DOMAIN PieceSeq] : n \in 0..MaxPieces} }

InitText ==
    /\ text \in Texts
    /\ tpc = "call"
    /\ result = <<>>
    /\ Idle

PreprocessText ==
    /\ tpc = "call"
    /\ result' = preprocess_text(text)
    /\ tpc' = "return"
    /\ UNCHANGED <<text, pvars>>

NextText == PreprocessText

SpecText == InitText /\ [][NextText]_vars

\* ------------------------------------------------- claims: preprocess_text

\* The whitespace-separated tokens of a string.
TokensOf(str) == Range(split(str))

\* The tokens preprocess_text sees when it tokenises its input (line 96).
InputTokens(str) == Range(split(SubGreetings(SubNonAlpha(lower(str)))))

C6_StopWordsRemovedOperatorsKept ==
    tpc = "return" =>
        /\ \A tok \in TokensOf(result) : tok \notin stop_words
        /\ \A tok \in InputTokens(text) :
              tok \in operators => tok \in TokensOf(result)

\* ---------------------------------------------------- claims: the workflow

\* The rows of df whose normalised text is not empty.
NonEmptyRows == {j \in DOMAIN df_clean : df_clean[j] # <<>>}

\* The effective upper bound of the candidates, from the arguments.
UpperBound ==
    IF arg_max_clusters < nrows \div RowsPerCluster
    THEN arg_max_clusters ELSE nrows \div RowsPerCluster

\* C1: when min(max_clusters, R div 8) is below 2, find_optimal_clusters
\* ends in an error and returns nothing; no KMeans is fitted, neither a
\* candidate nor the final one, and no output file is written.
C1_TooFewRowsIsAnError ==
    ("select" \in started /\ UpperBound < 2) =>
        /\ pc \in {"sel_loop", "error"}
        /\ pc = "error" => err = "ValueError: argmax of an empty sequence"
        /\ optimal_k = 0
        /\ fitted = <<>>
        /\ labels = <<>>
        /\ started = {"select"}
        /\ output_file = <<>>

\* C1 witness: the workflow on 1..15 usable rows ended in the selector's
\* error.
C1_Witness ==
    /\ caller = "cluster_tickets"
    /\ nrows > 0
    /\ UpperBound < 2
    /\ pc = "error"
    /\ err = "ValueError: argmax of an empty sequence"

\* C2, as stated: once the workflow has reached its save step it does not
\* fail; every row of the input is in the output, a row with non-empty
\* normalised text under its own cluster label, a row with empty normalised
\* text under no cluster label.
C2_EveryRecordInOutput ==
    "save" \in started =>
        /\ pc = "done"
        /\ err = ""
        /\ Len(df_Label) = Len(df_Question)
        /\ \A p \in DOMAIN clean_index :
              df_Label[clean_index[p]] = clean_Label[p]
        /\ \A j \in DOMAIN df_Question \ NonEmptyRows :
              df_Label[j] \notin 0..(optimal_k - 1)
        /\ \A j \in DOMAIN df_Question :
              \E g \in DOMAIN output_file :
                  /\ j \in output_file[g].rows
                  /\ j \in NonEmptyRows => output_file[g].Label = df_Label[j]

\* C3: the k returned is a candidate with the maximal score, and no
\* smaller candidate has that score.
C3_ReturnsBestSmallestK ==
    pc \in {"returned", "fit"} =>
        \E p \in DOMAIN silhouette_scores :
            /\ fitted[p] = optimal_k
            /\ \A q \in DOMAIN silhouette_scores :
                  /\ silhouette_scores[q] <= silhouette_scores[p]
                  /\ silhouette_scores[q] = silhouette_scores[p]
                        => fitted[q] >= optimal_k

\* C3 witness: two candidates tied and the smaller one was returned.
C3_Witness ==
    /\ pc = "returned"
    /\ Len(silhouette_scores) >= 2
    /\ silhouette_scores[1] = silhouette_scores[2]
    /\ optimal_k = 2

\* C4: the values KMeans was fitted with are 2, 3, ... in this order, none
\* above min(max_clusters, R div 8); when the selector returns, every value
\* of that range was fitted.
C4_CandidatesInRangeAscendingOnce ==
    /\ \A p \in DOMAIN fitted :
          /\ fitted[p] = p + 1
          /\ fitted[p] <= UpperBound
    /\ pc \in {"returned", "fit"} =>
          /\ UpperBound >= 2
          /\ Len(fitted) = UpperBound - 1

\* C4 witness: a call with max_clusters above R div 8 = 3 returned after
\* fitting k = 2 and k = 3.
C4_Witness ==
    /\ pc = "returned"
    /\ arg_max_clusters > nrows \div RowsPerCluster
    /\ fitted = <<2, 3>>

\* The reporter has just printed the summary of a cluster without members.
EmptyClusterReported ==
    /\ pc = "analyze"
    /\ summary.cluster >= 0
    /\ \A p \in DOMAIN labels : labels[p] # summary.cluster

\* C7, as stated: for a cluster without members the reporter does not
\* raise and prints count 0, no top term and no sample.
C7_EmptyClusterEmptySummary ==
    EmptyClusterReported =>
        /\ err = ""
        /\ summary.size = 0
        /\ summary.top_terms = <<>>
        /\ summary.samples = <<>>

\* C7, amended: for a cluster without members the reporter does not raise
\* and prints count 0, percentage 0 and no sample; it still prints the top
\* terms of that cluster's centre, min(10, vocabulary size) >= 1 distinct
\* terms of the vocabulary.
C7_EmptyClusterStillHasTerms ==
    EmptyClusterReported =>
        /\ err = ""
        /\ summary.size = 0
        /\ summary.pct_num = 0
        /\ summary.samples = <<>>
        /\ Len(summary.top_terms) >= 1
        /\ Len(summary.top_terms) =
              (IF Len(terms) < TopTerms THEN Len(terms) ELSE TopTerms)
        /\ Range(summary.top_terms) \subseteq Range(terms)
        /\ Cardinality(Range(summary.top_terms)) = Len(summary.top_terms)

\* C7 witness: with k = 3 the last cluster has no member and was reported.
C7_Witness ==
    /\ EmptyClusterReported
    /\ optimal_k = 3
    /\ summary.cluster = 2

\* The reporter ran to its end.
ReporterLeft == pc = "save" \/ "save" \in started

\* C8: the sizes the reporter printed sum to the number of rows with
\* non-empty normalised text, which is the denominator of every
\* percentage, so the percentages sum to 100; every such row was counted
\* in exactly one cluster, its own, and no other row was counted.
C8_CountsPartitionCleanRows ==
    /\ (pc = "analyze" /\ summary.cluster >= 0) =>
          summary.pct_den = Cardinality(NonEmptyRows)
    /\ ReporterLeft =>
          /\ size_sum = Cardinality(NonEmptyRows)
          /\ pct_sum = 100 * Cardinality(NonEmptyRows)
          /\ \A j \in DOMAIN df_Question :
                Cardinality(counted[j]) = (IF j \in NonEmptyRows THEN 1 ELSE 0)
          /\ \A p \in DOMAIN clean_index :
                counted[clean_index[p]] = {labels[p]}

\* C8 witness: the reporter finished on an input that has rows with empty
\* normalised text and rows in both of two clusters.
C8_Witness ==
    /\ pc = "save"
    /\ NonEmptyRows # DOMAIN df_Question
    /\ Cardinality(Range(labels)) >= 2

\* C9: when every row normalises to the empty string the workflow ends in
\* the vectorizer's error; the selector, the final fit, the reporter and
\* the save never begin and no output is written.
C9_AllEmptyIsAnError ==
    (caller = "cluster_tickets" /\ pc # "preprocess" /\ NonEmptyRows = {}) =>
        /\ pc \in {"vectorize", "error"}
        /\ pc = "error" => err = "ValueError: empty vocabulary"
        /\ started = {}
        /\ fitted = <<>>
        /\ optimal_k = 0
        /\ labels = <<>>
        /\ output_file = <<>>

\* C9 witness: an input of rows of stop words only ended in the error.
C9_Witness ==
    /\ caller = "cluster_tickets"
    /\ Len(df_Question) >= 2
    /\ NonEmptyRows = {}
    /\ pc = "error"
    /\ err = "ValueError: empty vocabulary"

====
